---------------------------- MODULE Spec2Model ----------------------------
(***************************************************************************)
(* Daily induction / trip-assignment planner of advanced_model.            *)
(*                                                                         *)
(* Two solver programs are modelled:                                       *)
(*   variant "B"  02_solve_advanced_schedule.py  (solve_schedule)          *)
(*   variant "A"  tempCodeRunnerFile.py          (solve_advanced_schedule) *)
(*                                                                         *)
(* A run is: load the input file, build the CP-SAT model and solve it,     *)
(* then extract, classify and write the solution.  The CP-SAT solver is    *)
(* modelled by what it may return: any assignment of the decision          *)
(* variables that satisfies every posted constraint (FEASIBLE), one that   *)
(* also optimises the objective (OPTIMAL), or no solution.                 *)
(*                                                                         *)
(* Trains and trips are identified by their position in the input lists.   *)
(* Times of day "HH:MM:SS" are triples <<h, m, s>>; dates are day numbers. *)
(* Real-valued inputs are fixed-point: distances in tenths of a km,        *)
(* scores and hours in hundredths.                                         *)
(***************************************************************************)
EXTENDS Integers, Sequences, FiniteSets, TLC

\* ---------------------------------------------------------------- bounds
NumTrains == 2
NumTrips == 2
\* candidate start slots the solver is allowed for a cleaning interval (A)
MaxCleanSlot == 1

\* ------------------------------------------------------ program constants
W_TRIP_COVERAGE == -10000
W_ACTIVATION == 100
W_MILEAGE_RANGE == 1
W_BRANDING == -20
W_CLEANING_PENALTY == 500
W_SHUNTING == 300
W_HEALTH_RISK == 5000
HORIZON == 86400 * 2
PLANNING_DATE == 100
MILEAGE_THRESHOLD == 115
cleaning_start_time == 23 * 3600
cleaning_duration == 6 * 3600

VARIABLES
    variant,          \* which program runs: "A" or "B"
    fleet,            \* [TrainIds -> train record]   (trains / fleet_details)
    trips,            \* [TripIds -> trip record]     (trips / trip_details)
    depot,            \* depot_resources
    next_day_starts,  \* terminal -> required count (B)
    shunting_distances,     \* <<from_stop, to_stop>> -> distance_km, tenths (A)
    average_fleet_mileage,  \* (A)
    pc,               \* position of the run
    status,           \* solver status
    sol,              \* values of the decision variables after Solve
    out               \* the solution record written, or NoOutput

inputs == <<variant, fleet, trips, depot, next_day_starts, shunting_distances,
            average_fleet_mileage>>
vars == <<inputs, pc, status, sol, out>>

\* trains_list, trips_list: the trains and trips of the input, by position
TrainIds == DOMAIN fleet
TripIds == DOMAIN trips

NoOutput == [written |-> FALSE]
NoSol == [assign |-> {}]

\* ------------------------------------------------------------ arithmetic
Min2(a, b) == IF a < b THEN a ELSE b
Max2(a, b) == IF a > b THEN a ELSE b
Abs(x) == IF x < 0 THEN -x ELSE x
SetMin(S) == CHOOSE x \in S : \A y \in S : x <= y
SetMax(S) == CHOOSE x \in S : \A y \in S : x >= y

RECURSIVE SumOver(_, _)
SumOver(S, f) ==
    IF S = {} THEN 0
    ELSE LET x == CHOOSE y \in S : TRUE IN f[x] + SumOver(S \ {x}, f)

\* int(x) of a real kept in tenths: truncation towards zero
IntOfTenths(d10) == IF d10 >= 0 THEN d10 \div 10 ELSE -((-d10) \div 10)

\* "HH:MM:SS" -> seconds  (split(':'), h*3600 + m*60 + s; pd.to_timedelta)
ToSeconds(hms) == hms[1] * 3600 + hms[2] * 60 + hms[3]

\* ------------------------------------------------------ variant B: inputs
start_seconds(j) == ToSeconds(trips[j].start_time)
end_seconds(j) == ToSeconds(trips[j].end_time)

unavailable_trains == {t \in TrainIds : fleet[t].has_open_job_card}
TelecomExpired(t) == fleet[t].telecom_cert_expiry_date < PLANNING_DATE
StockExpired(t) == fleet[t].stock_cert_expiry_date < PLANNING_DATE
is_unavailable(t) ==
    t \in unavailable_trains \/ TelecomExpired(t) \/ StockExpired(t)

days_since(t) == PLANNING_DATE - fleet[t].last_deep_clean_date
trains_due_for_cleaning ==
    {t \in TrainIds : days_since(t) > depot.deep_clean_threshold_days}


\* ------------------------------------------- variant B: decision variables
\* A candidate solution is a record
\*   [assign, trip_serviced, train_used, is_cleaned]
\* assign is the set of pairs <<t, j>> whose boolean is 1, the other three
\* are the sets of trains / trips whose boolean is 1.

TrainsOf(assign, j) == {t \in TrainIds : <<t, j>> \in assign}
TripsOf(assign, t) == {j \in TripIds : <<t, j>> \in assign}

\* sum(assign[(t, j)] for t in trains_list) == trip_serviced[j]
\* (the link posted as  sum >= trip_serviced[j])
TripCoverageLink_AtLeast(assign, trip_serviced) ==
    \A j \in TripIds :
        Cardinality(TrainsOf(assign, j)) >= (IF j \in trip_serviced THEN 1 ELSE 0)
TripCoverageLink(assign, trip_serviced) ==
    \A j \in TripIds :
        Cardinality(TrainsOf(assign, j)) = (IF j \in trip_serviced THEN 1 ELSE 0)

\* An optional interval [start, end) of size end - start, present iff its
\* literal is true; a present interval has a non-negative size.  AddNoOverlap:
\* the present intervals can be put in a sequence with end_i <= start_{i+1}
\* (intervals of size zero take part).
IntervalPresentOK(j) == end_seconds(j) - start_seconds(j) >= 0
Disjoint(j1, j2) ==
    end_seconds(j1) <= start_seconds(j2) \/ end_seconds(j2) <= start_seconds(j1)
AddNoOverlap(assign) ==
    \A t \in TrainIds :
        /\ \A j \in TripsOf(assign, t) : IntervalPresentOK(j)
        /\ \A j1, j2 \in TripsOf(assign, t) : j1 # j2 => Disjoint(j1, j2)

\* sum > 0 if train_used[t], sum == 0 if not train_used[t]
\* (the link posted in the first direction only)
UsageLink_OnlyIfUsed(assign, train_used) ==
    \A t \in TrainIds :
        t \in train_used => Cardinality(TripsOf(assign, t)) > 0
UsageLink(assign, train_used) ==
    \A t \in TrainIds :
        /\ t \in train_used => Cardinality(TripsOf(assign, t)) > 0
        /\ t \notin train_used => Cardinality(TripsOf(assign, t)) = 0

\* if is_unavailable: model.Add(train_used[t] == 0)
\* (only the job cards gate a train, the certificate dates are not looked at)
EligibilityGate_JobCardsOnly(train_used) ==
    \A t \in TrainIds : t \in unavailable_trains => t \notin train_used
EligibilityGate(train_used) ==
    \A t \in TrainIds : is_unavailable(t) => t \notin train_used

\* model.AddImplication(is_cleaned[t], train_used[t].Not())
\* (the implication posted without .Not())
CleaningExcludesService_NoNot(is_cleaned, train_used) ==
    \A t \in TrainIds : t \in is_cleaned => t \in train_used
CleaningExcludesService(is_cleaned, train_used) ==
    \A t \in TrainIds : t \in is_cleaned => t \notin train_used

\* else: model.Add(is_cleaned[t] == 0)
NotDueNotCleaned(is_cleaned) ==
    \A t \in TrainIds : t \notin trains_due_for_cleaning => t \notin is_cleaned

\* AddCumulative over the optional windows [23:00, 23:00 + 6h), demand 1 each:
\* at every instant the present windows number at most cleaning_bays.
CleanWindowB(t) == [lo |-> cleaning_start_time, hi |-> cleaning_start_time + cleaning_duration]
AddCumulativeB(is_cleaned) ==
    /\ depot.cleaning_bays >= 0
    /\ \A t \in is_cleaned :
          Cardinality({u \in is_cleaned :
              CleanWindowB(u).lo <= CleanWindowB(t).lo
              /\ CleanWindowB(t).lo < CleanWindowB(u).hi}) <= depot.cleaning_bays

\* int(initial_mileage_km) + sum(assign * int(distance_km))      [km]
final_mileage_expr(assign, t) ==
    fleet[t].mileage
      + SumOver(TripsOf(assign, t), [j \in TripIds |-> IntOfTenths(trips[j].distance_km)])
min_m(assign) == SetMin({final_mileage_expr(assign, t) : t \in TrainIds})
max_m(assign) == SetMax({final_mileage_expr(assign, t) : t \in TrainIds})
mileage_range(assign) == max_m(assign) - min_m(assign)
MileageDomains(assign) ==
    /\ 0 <= min_m(assign) /\ min_m(assign) <= 300000
    /\ 0 <= max_m(assign) /\ max_m(assign) <= 300000
    /\ 0 <= mileage_range(assign) /\ mileage_range(assign) <= 100000

\* late-evening trips ending at a terminal, summed over all trains
late_trips == {j \in TripIds : trips[j].is_late_evening}
num_ending_at_terminal(assign, s) ==
    Cardinality({p \in assign : p[2] \in late_trips /\ trips[p[2]].end_stop_id = s})
mismatch(assign, s) == Abs(num_ending_at_terminal(assign, s) - next_day_starts[s])
\* mismatch = NewIntVar(0, len(fleet)); AddAbsEquality
MismatchDomains(assign) ==
    \A s \in DOMAIN next_day_starts : mismatch(assign, s) <= Cardinality(TrainIds)

ad_trains == {t \in TrainIds : fleet[t].has_branding_contract}

\* the minimised objective, times 100 (health_score and duration_hours are
\* kept in hundredths)
ObjectiveB(s) ==
    100 * ( Cardinality(s.trip_serviced) * W_TRIP_COVERAGE
          + Cardinality(s.train_used) * W_ACTIVATION
          + Cardinality(trains_due_for_cleaning \ s.is_cleaned) * W_CLEANING_PENALTY
          + mileage_range(s.assign) * W_MILEAGE_RANGE
          + SumOver(DOMAIN next_day_starts,
                    [x \in DOMAIN next_day_starts |-> mismatch(s.assign, x)]) * W_SHUNTING )
    + SumOver(s.train_used, [t \in TrainIds |-> fleet[t].anomaly_score]) * W_HEALTH_RISK
    + SumOver({p \in s.assign : p[1] \in ad_trains},
              [p \in TrainIds \X TripIds |-> trips[p[2]].duration_hours]) * W_BRANDING

\* every assignment of the decision variables satisfying the posted constraints
FeasibleB ==
    LET AS == {a \in SUBSET (TrainIds \X TripIds) :
                   AddNoOverlap(a) /\ MileageDomains(a) /\ MismatchDomains(a)}
        TS(a) == {ts \in SUBSET TripIds : TripCoverageLink(a, ts)}
        US(a) == {u \in SUBSET TrainIds : UsageLink(a, u) /\ EligibilityGate(u)}
        CS(u) == {c \in SUBSET TrainIds :
                   /\ CleaningExcludesService(c, u)
                   /\ NotDueNotCleaned(c)
                   /\ AddCumulativeB(c)}
    IN UNION { UNION { UNION {
           { [assign |-> a, trip_serviced |-> ts, train_used |-> u, is_cleaned |-> c]
               : c \in CS(u) } : u \in US(a) } : ts \in TS(a) } : a \in AS }


\* ------------------------------------------------------ variant A: inputs
\* end_sec += 24 * 3600 when the end time of day is before the start
start_sec(j) == ToSeconds(trips[j].start_time)
end_sec(j) ==
    IF ToSeconds(trips[j].end_time) < ToSeconds(trips[j].start_time)
    THEN ToSeconds(trips[j].end_time) + 24 * 3600
    ELSE ToSeconds(trips[j].end_time)

\* stop ids are numbered in their lexicographic order
all_stop_ids ==
    {p[1] : p \in DOMAIN shunting_distances} \cup {p[2] : p \in DOMAIN shunting_distances}
      \cup {trips[j].start_stop_id : j \in TripIds} \cup {trips[j].end_stop_id : j \in TripIds}
num_stops == Cardinality(all_stop_ids)
\* sorted(list(all_stop_ids)) then enumerate: the rank of the id
stop_id_to_int(s) == Cardinality({x \in all_stop_ids : x < s})
\* distance_matrix[from_idx][to_idx] = int(distance_km * 10), 0 when no row
distance_matrix(fi, ti) ==
    LET rows == {p \in DOMAIN shunting_distances :
                    stop_id_to_int(p[1]) = fi /\ stop_id_to_int(p[2]) = ti}
    IN IF rows = {} THEN 0 ELSE shunting_distances[CHOOSE p \in rows : TRUE]
flat_distance_matrix(i) == distance_matrix(i \div num_stops, i % num_stops)

trains_requiring_cleaning == {t \in TrainIds : fleet[t].cleaning_required_hours > 0}
\* has_open_job_card or not is_fully_certified or in trains_requiring_cleaning
ForbiddenA(t) ==
    \/ fleet[t].has_open_job_card
    \/ ~fleet[t].is_fully_certified
    \/ t \in trains_requiring_cleaning
\* depot_resources.get("Muttom Depot", {}).get("cleaning_bays", 0)
cleaning_bays_capacity == depot.cleaning_bays
\* int(cleaning_required_hours * 3600), hours kept in hundredths
duration_sec(t) == (fleet[t].cleaning_required_hours * 3600) \div 100

\* ------------------------------------------- variant A: decision variables
\* A candidate solution is a record
\*   [assign, is_train_used, clean_start, is_first, is_last]

\* model.AddAtMostOne(assignments[(t_id, p_id)] for t_id in train_ids)
AddAtMostOne(assign) ==
    \A j \in TripIds : Cardinality(TrainsOf(assign, j)) <= 1

\* if max(start1, start2) < min(end1, end2): not both on one train
Intersect(j1, j2) ==
    Max2(start_sec(j1), start_sec(j2)) < Min2(end_sec(j1), end_sec(j2))
PairwiseNoOverlap(assign) ==
    \A t \in TrainIds : \A j1, j2 \in TripsOf(assign, t) :
        j1 < j2 => ~Intersect(j1, j2)

\* model.Add(assignments[(t_id, p_id)] == 0) for the forbidden trains
ForbidTrains(assign) ==
    \A t \in TrainIds : ForbiddenA(t) => TripsOf(assign, t) = {}

\* start_var in [0, HORIZON - duration_sec]; the solver's choice is sampled
\* at whole multiples of the duration
CleanStartDomain(t) ==
    {k * duration_sec(t) : k \in 0..MaxCleanSlot} \cap (0..(HORIZON - duration_sec(t)))
\* mandatory cleaning intervals; AddCumulative only when capacity > 0
CleanInterval(clean_start, t) ==
    [lo |-> clean_start[t], hi |-> clean_start[t] + duration_sec(t)]
AddCumulativeA(clean_start) ==
    (trains_requiring_cleaning # {} /\ cleaning_bays_capacity > 0) =>
        \A t \in trains_requiring_cleaning :
            Cardinality({u \in trains_requiring_cleaning :
                CleanInterval(clean_start, u).lo <= clean_start[t]
                /\ clean_start[t] < CleanInterval(clean_start, u).hi})
              <= cleaning_bays_capacity

\* is_train_used <=> the train has an assignment
UsageLinkA(assign, used) ==
    \A t \in TrainIds :
        /\ t \in used => Cardinality(TripsOf(assign, t)) > 0
        /\ t \notin used => Cardinality(TripsOf(assign, t)) = 0

\* min over (start_sec if assigned else HORIZON), max over (end_sec if assigned else 0)
min_start_time(assign, t) ==
    SetMin({IF <<t, j>> \in assign THEN start_sec(j) ELSE HORIZON : j \in TripIds})
max_end_time(assign, t) ==
    SetMax({IF <<t, j>> \in assign THEN end_sec(j) ELSE 0 : j \in TripIds})
\* the potential times are NewIntVar(0, HORIZON)
TimeDomains(assign) ==
    \A p \in assign : start_sec(p[2]) <= HORIZON /\ end_sec(p[2]) <= HORIZON

\* is_first => assigned and min_start_time == start_sec   (one direction only)
IsFirstOK(assign, is_first) ==
    \A p \in is_first : p \in assign /\ min_start_time(assign, p[1]) = start_sec(p[2])
IsLastOK(assign, is_last) ==
    \A p \in is_last : p \in assign /\ max_end_time(assign, p[1]) = end_sec(p[2])

first_trip_loc_idx(is_first, t) ==
    SumOver({p \in is_first : p[1] = t},
            [p \in TrainIds \X TripIds |-> stop_id_to_int(trips[p[2]].start_stop_id)])
last_trip_loc_idx(is_last, t) ==
    SumOver({p \in is_last : p[1] = t},
            [p \in TrainIds \X TripIds |-> stop_id_to_int(trips[p[2]].end_stop_id)])
index_var(is_first, is_last, t) ==
    last_trip_loc_idx(is_last, t) * num_stops + first_trip_loc_idx(is_first, t)
shunting_dist_for_train(is_first, is_last, t) ==
    flat_distance_matrix(index_var(is_first, is_last, t))
\* loc idx in [0, num_stops - 1], shunting distance in [0, 500]
ShuntingDomains(is_first, is_last) ==
    \A t \in TrainIds :
        /\ first_trip_loc_idx(is_first, t) <= num_stops - 1
        /\ last_trip_loc_idx(is_last, t) <= num_stops - 1
        /\ shunting_dist_for_train(is_first, is_last, t) <= 500
final_shunting_dist(s, t) ==
    IF t \in s.is_train_used
    THEN shunting_dist_for_train(s.is_first, s.is_last, t) ELSE 0

\* int(mileage) + sum(int(distance_km) * assign), in [initial, initial + 20000]
final_mileage(assign, t) ==
    fleet[t].mileage
      + SumOver(TripsOf(assign, t), [j \in TripIds |-> IntOfTenths(trips[j].distance_km)])
deviation(assign, t) == Abs(final_mileage(assign, t) - average_fleet_mileage)
MileageDomainsA(assign) ==
    \A t \in TrainIds :
        /\ fleet[t].mileage <= final_mileage(assign, t)
        /\ final_mileage(assign, t) <= fleet[t].mileage + 20000
        /\ deviation(assign, t) <= 100000

\* the maximised objective
ObjectiveA(s) ==
    Cardinality(s.assign) * 100000
    - SumOver(TrainIds, [t \in TrainIds |-> final_shunting_dist(s, t)]) * 100
    - SumOver(TrainIds, [t \in TrainIds |-> deviation(s.assign, t)])
    + SumOver({p \in s.assign : fleet[p[1]].has_branding_contract},
              [p \in TrainIds \X TripIds |-> end_sec(p[2]) - start_sec(p[2])])

FeasibleA ==
    LET AS == {a \in SUBSET (TrainIds \X TripIds) :
                   /\ AddAtMostOne(a) /\ PairwiseNoOverlap(a) /\ ForbidTrains(a)
                   /\ TimeDomains(a) /\ MileageDomainsA(a)}
        US(a) == {u \in SUBSET TrainIds : UsageLinkA(a, u)}
        FS(a) == {f \in SUBSET a : IsFirstOK(a, f)}
        LS(a, f) == {l \in SUBSET a : IsLastOK(a, l) /\ ShuntingDomains(f, l)}
        KS == {cs \in [trains_requiring_cleaning -> UNION {CleanStartDomain(t) : t \in TrainIds}] :
                   /\ \A t \in trains_requiring_cleaning : cs[t] \in CleanStartDomain(t)
                   /\ AddCumulativeA(cs)}
    IN UNION { UNION { UNION { UNION {
           { [assign |-> a, is_train_used |-> u, is_first |-> f, is_last |-> l,
              clean_start |-> cs] : cs \in KS }
             : l \in LS(a, f) } : f \in FS(a) } : u \in US(a) } : a \in AS }


\* ------------------------------------------------------------- the solver
OkStatus == {"OPTIMAL", "FEASIBLE"}

\* solver.Solve(model), variant B (minimise), under max_time_in_seconds.  The
\* solver returns a feasible solution, reported OPTIMAL only when no feasible
\* solution has a smaller objective, or proves the model infeasible, or runs
\* out of time with nothing found (UNKNOWN).
\* With an empty trip_details list the trips frame has no columns and
\* trips['trip_id'] (line 54) raises KeyError before the model is built.
SolveB ==
    /\ pc = "loaded" /\ variant = "B"
    /\ IF TripIds = {}
       THEN pc' = "crashed" /\ UNCHANGED <<status, sol>>
       ELSE /\ \/ \E F \in {FeasibleB} :
                    IF F = {}
                    THEN status' = "INFEASIBLE" /\ sol' = NoSol
                    ELSE \E best \in {SetMin({ObjectiveB(s) : s \in F})} : \E s \in F :
                           /\ sol' = s
                           /\ \/ status' = "FEASIBLE"
                              \/ ObjectiveB(s) = best /\ status' = "OPTIMAL"
               \/ status' = "UNKNOWN" /\ sol' = NoSol
            /\ pc' = "solved"
    /\ UNCHANGED <<inputs, out>>

\* solver.Solve(model), variant A (maximise), under max_time_in_seconds
SolveA ==
    /\ pc = "loaded" /\ variant = "A"
    /\ \/ \E F \in {FeasibleA} :
             IF F = {}
             THEN status' = "INFEASIBLE" /\ sol' = NoSol
             ELSE \E best \in {SetMax({ObjectiveA(s) : s \in F})} : \E s \in F :
                    /\ sol' = s
                    /\ \/ status' = "FEASIBLE"
                       \/ ObjectiveA(s) = best /\ status' = "OPTIMAL"
       \/ status' = "UNKNOWN" /\ sol' = NoSol
    /\ pc' = "solved"
    /\ UNCHANGED <<inputs, out>>


\* ------------------------------------------------- extraction, common parts
\* all orderings of a finite set as sequences
Perms(S) ==
    {q \in [1..Cardinality(S) -> S] : \A i, k \in 1..Cardinality(S) : i # k => q[i] # q[k]}

\* comparison of two zero-padded "HH:MM:SS" strings, character by character
StrLess(a, b) ==
    \/ a[1] < b[1]
    \/ a[1] = b[1] /\ a[2] < b[2]
    \/ a[1] = b[1] /\ a[2] = b[2] /\ a[3] < b[3]

\* the Status strings either program writes, in ascending lexicographic order
StatusAscending ==
    << "HELD (Stock Cert Expired)", "HELD (Telecom Cert Expired)",
       "HELD FOR CERTIFICATION", "HELD FOR CLEANING", "HELD FOR MAINTENANCE",
       "HELD FOR MAINTENANCE (Job Card Open)", "IN SERVICE", "STANDBY",
       "STANDBY (For Mileage Balancing)", "STANDBY (High Failure Risk)" >>
StatusRank(label) == CHOOSE i \in 1..Len(StatusAscending) : StatusAscending[i] = label

\* the record built for one assigned pair
AssignmentRecord(p) ==
    [trip_id |-> p[2], train_id |-> p[1],
     start_time |-> trips[p[2]].start_time, end_time |-> trips[p[2]].end_time]

\* the records in the order "for t in trains for j in trips if assigned"
RECURSIVE ListAssigned(_, _, _)
ListAssigned(assign, t, j) ==
    IF t > Cardinality(TrainIds) THEN << >>
    ELSE IF j > Cardinality(TripIds) THEN ListAssigned(assign, t + 1, 1)
    ELSE (IF <<t, j>> \in assign THEN << AssignmentRecord(<<t, j>>) >> ELSE << >>)
           \o ListAssigned(assign, t, j + 1)

SeqToSet(q) == {q[i] : i \in 1..Len(q)}

\* ------------------------------------------------------ variant B: extract
\* DataFrame(records).sort_values(by='start_time'): some ordering of the rows
\* with non-decreasing start_time strings (rows with equal keys in any order)
schedule_df_orders(assign) ==
    {q \in Perms(SeqToSet(ListAssigned(assign, 1, 1))) :
        \A i, k \in 1..Len(q) : i < k => ~StrLess(q[k].start_time, q[i].start_time)}

RECURSIVE ListUnserviced(_, _)
ListUnserviced(trip_serviced, j) ==
    IF j > Cardinality(TripIds) THEN << >>
    ELSE (IF j \in trip_serviced THEN << >> ELSE << j >>)
           \o ListUnserviced(trip_serviced, j + 1)

used_trains_ids(schedule) == {schedule[i].train_id : i \in 1..Len(schedule)}

\* initial_mileage_km > mean(initial_mileage_km of the used trains) * 1.15;
\* the mean is 0 when no train is used
AboveServiceAverage(t, used) ==
    IF used = {} THEN fleet[t].mileage > 0
    ELSE fleet[t].mileage * Cardinality(used) * 100
           > SumOver(used, [u \in TrainIds |-> fleet[u].mileage]) * MILEAGE_THRESHOLD

reason(t, used) ==
    LET r0 == IF t \in used THEN "IN SERVICE" ELSE "STANDBY"
        r1 == IF t \in sol.is_cleaned THEN "HELD FOR CLEANING" ELSE r0
        r2 == IF t \in unavailable_trains THEN "HELD FOR MAINTENANCE (Job Card Open)"
              ELSE IF TelecomExpired(t) THEN "HELD (Telecom Cert Expired)"
              ELSE IF StockExpired(t) THEN "HELD (Stock Cert Expired)"
              ELSE r1
    IN IF r2 = "STANDBY"
       THEN (IF fleet[t].anomaly_score > 75 THEN "STANDBY (High Failure Risk)"
             ELSE IF AboveServiceAverage(t, used) THEN "STANDBY (For Mileage Balancing)"
             ELSE r2)
       ELSE r2

\* one row per train, in fleet order; Final Mileage is int(...) km
final_status(used) ==
    [t \in TrainIds |->
        [Train_ID |-> t, Status |-> reason(t, used),
         Final_Mileage |-> final_mileage_expr(sol.assign, t),
         Health_Score |-> fleet[t].anomaly_score]]

\* row a comes before row b under by=['Status', 'Final Mileage'],
\* ascending=[False, True]
RankingBefore(a, b) ==
    \/ StatusRank(a.Status) > StatusRank(b.Status)
    \/ a.Status = b.Status /\ a.Final_Mileage < b.Final_Mileage

\* stable sort: repeatedly take the first row that no other row precedes
RECURSIVE StableSort(_)
StableSort(q) ==
    IF q = << >> THEN << >>
    ELSE LET i == CHOOSE i \in 1..Len(q) :
                     /\ \A k \in 1..Len(q) : ~RankingBefore(q[k], q[i])
                     /\ \A k \in 1..(i - 1) : RankingBefore(q[i], q[k])
             rest == [k \in 1..(Len(q) - 1) |-> IF k < i THEN q[k] ELSE q[k + 1]]
         IN << q[i] >> \o StableSort(rest)

status_df(used) == StableSort(final_status(used))

solution_data(schedule) ==
    LET unserviced_trips == ListUnserviced(sol.trip_serviced, 1)
    IN [written |-> TRUE,
        solver_status |-> status,
        total_trains_used |-> Cardinality(used_trains_ids(schedule)),
        trips_serviced |-> Cardinality(TripIds) - Len(unserviced_trips),
        trips_unserviced |-> Len(unserviced_trips),
        unserviced_trip_ids |-> unserviced_trips,
        induction_ranking |-> status_df(used_trains_ids(schedule)),
        trip_assignments |-> schedule]

\* lines 126-163.  With no assigned pair the frame has no columns and
\* sort_values(by='start_time') raises KeyError: nothing is written.
ExtractB ==
    /\ pc = "solved" /\ variant = "B"
    /\ IF status \in OkStatus
       THEN IF sol.assign = {}
            THEN pc' = "crashed" /\ out' = out
            ELSE /\ \E schedule \in schedule_df_orders(sol.assign) :
                        out' = solution_data(schedule)
                 /\ pc' = "written"
       ELSE pc' = "failed" /\ out' = out
    /\ UNCHANGED <<inputs, status, sol>>


\* ------------------------------------------------------ variant A: extract
\* f"{x:.3f}" of a value kept in tenths: the digits of x in thousandths
Format3f(x10) == x10 * 100

train_usage(t) == TripsOf(sol.assign, t)

status_text(t) ==
    IF fleet[t].has_open_job_card THEN "HELD FOR MAINTENANCE"
    ELSE IF ~fleet[t].is_fully_certified THEN "HELD FOR CERTIFICATION"
    ELSE IF fleet[t].cleaning_required_hours > 0 THEN "HELD FOR CLEANING"
    ELSE IF train_usage(t) # {} THEN "IN SERVICE"
    ELSE "STANDBY"

\* train_info['mileage'] + sum(distance_km of the trips used), in tenths
final_mileage_val(t) ==
    fleet[t].mileage * 10
      + SumOver(train_usage(t), [j \in TripIds |-> trips[j].distance_km])

\* appended in train_ids order, never sorted
induction_ranking ==
    [t \in TrainIds |->
        [Train_ID |-> t, Status |-> status_text(t),
         Shunting_Distance |-> final_shunting_dist(sol, t),
         Final_Mileage |-> Format3f(final_mileage_val(t)),
         Health_Score |-> fleet[t].anomaly_score]]

serviced_trips == {p[2] : p \in sol.assign}

output_solution ==
    [written |-> TRUE,
     solver_status |-> status,
     total_shunting_km |-> SumOver(TrainIds, [t \in TrainIds |-> final_shunting_dist(sol, t)]),
     total_mileage_deviation |-> SumOver(TrainIds, [t \in TrainIds |-> deviation(sol.assign, t)]),
     trips_serviced |-> Cardinality(serviced_trips),
     trips_unserviced |-> Cardinality(TripIds) - Cardinality(serviced_trips),
     induction_ranking |-> induction_ranking,
     trip_assignments |-> ListAssigned(sol.assign, 1, 1)]

\* lines 167-228
ExtractA ==
    /\ pc = "solved" /\ variant = "A"
    /\ IF status \in OkStatus
       THEN out' = output_solution /\ pc' = "written"
       ELSE pc' = "failed" /\ out' = out
    /\ UNCHANGED <<inputs, status, sol>>

\* ------------------------------------------------------------------- load
\* open(input_file_path): the file is read, or FileNotFoundError is caught
\* and the run ends without solving
LoadInput ==
    /\ pc = "start"
    /\ pc' = "loaded"
    /\ UNCHANGED <<inputs, status, sol, out>>

MissingFile ==
    /\ pc = "start"
    /\ pc' = "nofile"
    /\ UNCHANGED <<inputs, status, sol, out>>

\* ---------------------------------------------------------- input domains
\* positions of the trains and trips of an input of the bounded size
AllTrains == 1..NumTrains
AllTrips == 1..NumTrips

T0700 == <<7, 0, 0>>
T0730 == <<7, 30, 0>>
T0800 == <<8, 0, 0>>
\* <<start_time, end_time>> of a trip: two touching half hours, the hour that
\* covers both, a trip of no duration, an end time of day before the start
TimePairs ==
    { <<T0700, T0730>>, <<T0730, T0800>>, <<T0700, T0800>>, <<T0730, T0730>>,
      <<T0800, T0700>> }
DistanceVals == {105, 200}
MileageVals == {100, 299995}

DefaultTrain ==
    [mileage |-> 100, has_open_job_card |-> FALSE, is_fully_certified |-> TRUE,
     telecom_cert_expiry_date |-> PLANNING_DATE, stock_cert_expiry_date |-> PLANNING_DATE + 30,
     anomaly_score |-> 10, cleaning_required_hours |-> 0,
     last_deep_clean_date |-> PLANNING_DATE - 7, has_branding_contract |-> FALSE]

\* fleet records of the schema variant B reads
TrainKindsB ==
    { DefaultTrain,
      [DefaultTrain EXCEPT !.has_open_job_card = TRUE],
      [DefaultTrain EXCEPT !.telecom_cert_expiry_date = PLANNING_DATE - 1],
      [DefaultTrain EXCEPT !.stock_cert_expiry_date = PLANNING_DATE - 1],
      [DefaultTrain EXCEPT !.last_deep_clean_date = PLANNING_DATE - 8],
      [DefaultTrain EXCEPT !.has_open_job_card = TRUE,
                           !.last_deep_clean_date = PLANNING_DATE - 8],
      [DefaultTrain EXCEPT !.anomaly_score = 90],
      [DefaultTrain EXCEPT !.mileage = 200] }

\* train records of the schema variant A reads
TrainKindsA ==
    { DefaultTrain,
      [DefaultTrain EXCEPT !.has_open_job_card = TRUE],
      [DefaultTrain EXCEPT !.is_fully_certified = FALSE],
      [DefaultTrain EXCEPT !.cleaning_required_hours = 600],
      [DefaultTrain EXCEPT !.has_open_job_card = TRUE, !.cleaning_required_hours = 600],
      [DefaultTrain EXCEPT !.anomaly_score = 90, !.mileage = 200] }

\* consecutive one-hour trips 07:00-08:00, 08:00-09:00, ... alternating between
\* terminals 1 and 2
DefaultTrip(j) ==
    [start_time |-> <<6 + j, 0, 0>>, end_time |-> <<7 + j, 0, 0>>,
     start_stop_id |-> 1 + ((j + 1) % 2), end_stop_id |-> 1 + (j % 2),
     distance_km |-> 105, duration_hours |-> 100, is_late_evening |-> FALSE]

DefaultFleet == [t \in AllTrains |-> DefaultTrain]
\* the input's average_fleet_mileage is the mean mileage of its trains
FleetAverage(f) ==
    SumOver(DOMAIN f, [t \in DOMAIN f |-> f[t].mileage]) \div Cardinality(DOMAIN f)
HeldTrain == [DefaultTrain EXCEPT !.has_open_job_card = TRUE]
\* two trains fit for service, any further train held for maintenance
TwoFitFleet == [t \in AllTrains |-> IF t <= 2 THEN DefaultTrain ELSE HeldTrain]
DefaultTrips == [j \in AllTrips |-> DefaultTrip(j)]
DefaultDepot == [cleaning_bays |-> 1, deep_clean_threshold_days |-> 7]
DefaultStarts == (1 :> 0)
DefaultShunting == (<<1, 2>> :> 50) @@ (<<2, 1>> :> 50)

\* trip times vary
InitTimes ==
    /\ variant \in {"A", "B"}
    /\ trips \in {[j \in AllTrips |-> [DefaultTrip(j) EXCEPT !.start_time = f[j][1],
                                                            !.end_time = f[j][2]]]
                    : f \in [AllTrips -> TimePairs]}
    /\ fleet = TwoFitFleet
    /\ depot = DefaultDepot
    /\ next_day_starts = DefaultStarts
    /\ shunting_distances = DefaultShunting
    /\ average_fleet_mileage = FleetAverage(fleet)

\* the state of the fleet varies
InitFleet ==
    /\ variant \in {"A", "B"}
    /\ fleet \in [AllTrains -> IF variant = "A" THEN TrainKindsA ELSE TrainKindsB]
    /\ depot = DefaultDepot
    /\ trips = DefaultTrips
    /\ next_day_starts = DefaultStarts
    /\ shunting_distances = DefaultShunting
    /\ average_fleet_mileage = FleetAverage(fleet)

\* the number of cleaning bays varies, trains due for cleaning or not
InitBays ==
    /\ variant \in {"A", "B"}
    /\ fleet \in [AllTrains -> IF variant = "A"
                               THEN {DefaultTrain, [DefaultTrain EXCEPT !.cleaning_required_hours = 600]}
                               ELSE {DefaultTrain, [DefaultTrain EXCEPT !.last_deep_clean_date = PLANNING_DATE - 8]}]
    /\ depot \in {[DefaultDepot EXCEPT !.cleaning_bays = b] : b \in {0, 2}}
    /\ trips = DefaultTrips
    /\ next_day_starts = DefaultStarts
    /\ shunting_distances = DefaultShunting
    /\ average_fleet_mileage = FleetAverage(fleet)

\* trip distances and initial mileages vary
InitDistances ==
    /\ variant \in {"A", "B"}
    /\ trips \in {[j \in AllTrips |-> [DefaultTrip(j) EXCEPT !.distance_km = d[j]]]
                    : d \in [AllTrips -> DistanceVals]}
    /\ fleet \in {[t \in AllTrains |-> [DefaultTrain EXCEPT !.mileage = m[t]]]
                    : m \in [AllTrains -> MileageVals]}
    /\ depot = DefaultDepot
    /\ next_day_starts = DefaultStarts
    /\ shunting_distances = DefaultShunting
    /\ average_fleet_mileage = FleetAverage(fleet)

\* the next-day start requirement varies (variant B), late-evening trips
InitStarts ==
    /\ variant = "B"
    /\ next_day_starts \in {(1 :> r) : r \in 0..(NumTrains + 1)}
    /\ trips = [j \in AllTrips |-> [DefaultTrip(j) EXCEPT !.is_late_evening = TRUE]]
    /\ fleet \in {DefaultFleet,
                  [t \in AllTrains |-> HeldTrain]}
    /\ depot = DefaultDepot
    /\ shunting_distances = DefaultShunting
    /\ average_fleet_mileage = FleetAverage(fleet)

\* a trip that crosses midnight (23:30 -> 00:30) next to a trip that ends at
\* 23:45, inside it, or at 23:30, touching it
T2300 == <<23, 0, 0>>
T2330 == <<23, 30, 0>>
T2345 == <<23, 45, 0>>
T0030 == <<0, 30, 0>>
InitMidnight ==
    /\ variant \in {"A", "B"}
    /\ trips \in {[j \in AllTrips |->
                      IF j = 1 THEN [DefaultTrip(j) EXCEPT !.start_time = T2330,
                                                           !.end_time = T0030]
                      ELSE IF j = 2 THEN [DefaultTrip(j) EXCEPT !.start_time = T2300,
                                                                !.end_time = e]
                      ELSE DefaultTrip(j)] : e \in {T2345, T2330}}
    /\ fleet = TwoFitFleet
    /\ depot = DefaultDepot
    /\ next_day_starts = DefaultStarts
    /\ shunting_distances = DefaultShunting
    /\ average_fleet_mileage = FleetAverage(fleet)

\* a single trip, of 100 km, of 5000 km or of a negative distance, and trains
\* that differ only in their anomaly / health score
ScoreVals == {10, 90, 100}
LongDistanceVals == {1000, 50000, -105}
InitPriority ==
    /\ variant \in {"A", "B"}
    /\ fleet \in {[t \in AllTrains |-> [DefaultTrain EXCEPT !.anomaly_score = h[t]]]
                    : h \in [AllTrains -> ScoreVals]}
    /\ trips \in {[j \in {1} |-> [DefaultTrip(j) EXCEPT !.distance_km = d]]
                    : d \in LongDistanceVals}
    /\ depot = DefaultDepot
    /\ next_day_starts = DefaultStarts
    /\ shunting_distances = DefaultShunting
    /\ average_fleet_mileage = FleetAverage(fleet)

\* every train due for deep cleaning, one bay, an empty trip_details list
DueTrain == [DefaultTrain EXCEPT !.last_deep_clean_date = PLANNING_DATE - 8]
InitBacklog ==
    /\ variant = "B"
    /\ fleet = [t \in 1..(NumTrains + 1) |-> DueTrain]
    /\ trips = << >>
    /\ depot = DefaultDepot
    /\ next_day_starts = DefaultStarts
    /\ shunting_distances = DefaultShunting
    /\ average_fleet_mileage = FleetAverage(fleet)

Init ==
    /\ pc = "start"
    /\ status = "NONE"
    /\ sol = NoSol
    /\ out = NoOutput
    /\ \/ InitTimes \/ InitFleet \/ InitBays \/ InitDistances \/ InitStarts
       \/ InitMidnight \/ InitPriority \/ InitBacklog

Next ==
    \/ LoadInput
    \/ MissingFile
    \/ SolveA
    \/ SolveB
    \/ ExtractA
    \/ ExtractB

Spec == Init /\ [][Next]_vars


\* ===================================================================
\* Properties
\* ===================================================================
Accepted == status \in OkStatus
Finished == pc \in {"written", "crashed", "failed", "nofile"}

\* the interval of a trip: start of day seconds, the end moved to the next
\* day when it is before the start
TripStart(j) == ToSeconds(trips[j].start_time)
TripEnd(j) ==
    IF ToSeconds(trips[j].end_time) < TripStart(j)
    THEN ToSeconds(trips[j].end_time) + 86400 ELSE ToSeconds(trips[j].end_time)

Carriers(j) == {t \in TrainIds : <<t, j>> \in sol.assign}
Carried(t) == {j \in TripIds : <<t, j>> \in sol.assign}

\* C1: in every accepted solution each trip is assigned to at most one train;
\* in variant B the number of trains on a trip equals trip_serviced, and the
\* record written reports a trip as serviced exactly when a train carries it.
C1_TripAssignedOnce ==
    Accepted =>
        /\ \A j \in TripIds : Cardinality(Carriers(j)) <= 1
        /\ variant = "B" =>
              \A j \in TripIds :
                  Cardinality(Carriers(j)) = (IF j \in sol.trip_serviced THEN 1 ELSE 0)
        /\ (out.written /\ variant = "B") =>
              /\ \A j \in TripIds :
                    (j \in SeqToSet(out.unserviced_trip_ids)) <=> (Carriers(j) = {})
              /\ out.trips_serviced = Cardinality({j \in TripIds : Carriers(j) # {}})
        /\ (out.written /\ variant = "A") =>
              out.trips_serviced = Cardinality({j \in TripIds : Carriers(j) # {}})

\* C1 witness: variant B wrote a solution with one trip carried and one not
C1_Witness ==
    /\ variant = "B" /\ out.written
    /\ \E j \in TripIds : Cardinality(Carriers(j)) = 1
    /\ \E j \in TripIds : Carriers(j) = {} /\ j \notin sol.trip_serviced

\* C2: in every accepted solution two distinct trips of one train satisfy
\* end_j1 <= start_j2 or end_j2 <= start_j1, for all trip times accepted.
C2_NoOverlapPerTrain ==
    Accepted =>
        \A t \in TrainIds : \A j1, j2 \in Carried(t) :
            j1 # j2 => (TripEnd(j1) <= TripStart(j2) \/ TripEnd(j2) <= TripStart(j1))

\* the trains the claims call ineligible
OpenJobCard(t) == fleet[t].has_open_job_card
CertificateExpired(t) ==
    IF variant = "A" THEN ~fleet[t].is_fully_certified
    ELSE \/ fleet[t].telecom_cert_expiry_date < PLANNING_DATE
         \/ fleet[t].stock_cert_expiry_date < PLANNING_DATE
Ineligible(t) == OpenJobCard(t) \/ CertificateExpired(t)

\* C3: in every accepted solution an ineligible train (open job card, or an
\* expired certificate) has no assigned trip.
C3_IneligibleUnassigned ==
    Accepted => \A t \in TrainIds : Ineligible(t) => Carried(t) = {}

\* C3 witness: an accepted solution with a train whose certificate alone is
\* expired, while another train carries a trip
C3_Witness ==
    /\ Accepted
    /\ \E t \in TrainIds : CertificateExpired(t) /\ ~OpenJobCard(t)
    /\ sol.assign # {}

HeldForCleaning(t) ==
    out.written /\ \E i \in DOMAIN out.induction_ranking :
        /\ out.induction_ranking[i].Train_ID = t
        /\ out.induction_ranking[i].Status = "HELD FOR CLEANING"

\* C4: in every accepted solution a train with is_cleaned = 1 (variant A: a
\* train reported HELD FOR CLEANING) has no assigned trip, and a train whose
\* days since the last deep clean do not exceed the threshold has
\* is_cleaned = 0.
C4_CleanedUnassigned ==
    Accepted =>
        /\ variant = "B" =>
              /\ \A t \in sol.is_cleaned : Carried(t) = {}
              /\ \A t \in TrainIds :
                    (PLANNING_DATE - fleet[t].last_deep_clean_date
                        <= depot.deep_clean_threshold_days) => t \notin sol.is_cleaned
        /\ variant = "A" => \A t \in TrainIds : HeldForCleaning(t) => Carried(t) = {}

\* C4 witness: variant B accepted a solution that cleans a train while
\* another train is in service
C4_Witness ==
    /\ Accepted /\ variant = "B"
    /\ sol.is_cleaned # {}
    /\ sol.assign # {}


\* the cleaning interval the accepted solution gives a train being cleaned
BeingCleaned ==
    IF variant = "B" THEN sol.is_cleaned ELSE trains_requiring_cleaning
CleaningFrom(t) == IF variant = "B" THEN cleaning_start_time ELSE sol.clean_start[t]
CleaningTo(t) ==
    IF variant = "B" THEN cleaning_start_time + cleaning_duration
    ELSE sol.clean_start[t] + duration_sec(t)

\* C5: in every accepted solution, at every instant the trains being cleaned
\* whose cleaning interval contains the instant number at most cleaning_bays
\* (the count can only rise where an interval starts).
C5_CleaningWithinBays ==
    Accepted =>
        \A t \in BeingCleaned :
            Cardinality({u \in BeingCleaned :
                CleaningFrom(u) <= CleaningFrom(t) /\ CleaningFrom(t) < CleaningTo(u)})
              <= depot.cleaning_bays

\* the Final Mileage an entry of the ranking reports, in thousandths of a km
ReportedMileage(e) ==
    IF variant = "B" THEN e.Final_Mileage * 1000 ELSE e.Final_Mileage
\* initial mileage plus the distances of the trips carried, in thousandths
TrueMileage(t) ==
    (fleet[t].mileage * 10
       + SumOver(Carried(t), [j \in TripIds |-> trips[j].distance_km])) * 100

\* an assignment that the constraints other than the mileage bounds allow
AllowedButForMileage(a) ==
    IF variant = "B"
    THEN /\ AddNoOverlap(a) /\ MismatchDomains(a)
         /\ \A j \in TripIds : Cardinality(TrainsOf(a, j)) <= 1
         /\ \A t \in TrainIds : is_unavailable(t) => TripsOf(a, t) = {}
    ELSE /\ AddAtMostOne(a) /\ PairwiseNoOverlap(a) /\ ForbidTrains(a) /\ TimeDomains(a)
         /\ FeasibleA # {}
MileageBoundsAllow(a) ==
    IF variant = "B" THEN MileageDomains(a) ELSE MileageDomainsA(a)

\* C6: the Final Mileage reported for a train is its initial mileage plus the
\* distances of exactly the trips assigned to it, real-valued distances
\* included, and the bounds of the mileage variables exclude no assignment.
C6_FinalMileage ==
    /\ out.written =>
          \A i \in DOMAIN out.induction_ranking :
              ReportedMileage(out.induction_ranking[i])
                  = TrueMileage(out.induction_ranking[i].Train_ID)
    /\ pc = "loaded" =>
          \A a \in SUBSET (TrainIds \X TripIds) :
              AllowedButForMileage(a) => MileageBoundsAllow(a)

\* the cascade of the classification, first matching rule
InService == {t \in TrainIds : Carried(t) # {}}
AboveInServiceAverage(t) ==
    /\ InService # {}
    /\ fleet[t].mileage * Cardinality(InService) * 100
         > 115 * SumOver(InService, [u \in TrainIds |-> fleet[u].mileage])
TelecomCertExpired(t) ==
    variant = "B" /\ fleet[t].telecom_cert_expiry_date < PLANNING_DATE
ExpectedStatus(t) ==
    IF OpenJobCard(t) THEN "HELD FOR MAINTENANCE (Job Card Open)"
    ELSE IF CertificateExpired(t)
         THEN (IF variant = "A" THEN "HELD FOR CERTIFICATION"
               ELSE IF TelecomCertExpired(t) THEN "HELD (Telecom Cert Expired)"
               ELSE "HELD (Stock Cert Expired)")
    ELSE IF t \in BeingCleaned THEN "HELD FOR CLEANING"
    ELSE IF t \in InService THEN "IN SERVICE"
    ELSE IF fleet[t].anomaly_score > 75 THEN "STANDBY (High Failure Risk)"
    ELSE IF AboveInServiceAverage(t) THEN "STANDBY (For Mileage Balancing)"
    ELSE "STANDBY"
\* variant A writes the two HELD labels without their parenthesis
SameLabel(written, expected) ==
    \/ written = expected
    \/ variant = "A" /\ written = "HELD FOR MAINTENANCE"
         /\ expected = "HELD FOR MAINTENANCE (Job Card Open)"

\* C7: the ranking has exactly one entry per train and the Status of each is
\* the first matching rule of the cascade, the STANDBY sub-labels included.
C7_StatusCascade ==
    out.written =>
        /\ Len(out.induction_ranking) = Cardinality(TrainIds)
        /\ \A t \in TrainIds :
              \E i \in DOMAIN out.induction_ranking : out.induction_ranking[i].Train_ID = t
        /\ \A i \in DOMAIN out.induction_ranking :
              SameLabel(out.induction_ranking[i].Status,
                        ExpectedStatus(out.induction_ranking[i].Train_ID))

\* C8: the ranking written is ordered by Status descending, and among equal
\* Status by Final Mileage ascending, in both variants.
C8_RankingSorted ==
    out.written =>
        \A i, k \in DOMAIN out.induction_ranking :
            i < k =>
                LET a == out.induction_ranking[i]
                    b == out.induction_ranking[k]
                IN \/ StatusRank(a.Status) > StatusRank(b.Status)
                   \/ a.Status = b.Status /\ ReportedMileage(a) <= ReportedMileage(b)

\* C9: for any accepted solution, one with no assigned trip included, the
\* run writes trip_assignments holding exactly one record per assigned pair,
\* in non-decreasing order of the start time.
C9_TripAssignments ==
    (Accepted /\ pc # "solved") =>
        /\ out.written
        /\ Len(out.trip_assignments) = Cardinality(sol.assign)
        /\ SeqToSet(out.trip_assignments) = {AssignmentRecord(p) : p \in sol.assign}
        /\ \A i, k \in DOMAIN out.trip_assignments :
              i < k => TripStart(out.trip_assignments[i].trip_id)
                         <= TripStart(out.trip_assignments[k].trip_id)

HeldLabels ==
    { "HELD FOR MAINTENANCE (Job Card Open)", "HELD (Telecom Cert Expired)",
      "HELD (Stock Cert Expired)", "HELD FOR CLEANING", "HELD FOR MAINTENANCE",
      "HELD FOR CERTIFICATION" }

\* C10: when every train is ineligible the run still ends with an OPTIMAL or
\* FEASIBLE status, trips_unserviced equal to the number of trips and every
\* train under a HELD label, whatever the next_day_starts counts.
C10_AllIneligible ==
    ((\A t \in TrainIds : Ineligible(t)) /\ pc \in {"written", "crashed", "failed"}) =>
        /\ Accepted
        /\ out.written
        /\ out.solver_status \in OkStatus
        /\ out.trips_unserviced = Cardinality(TripIds)
        /\ \A i \in DOMAIN out.induction_ranking :
              out.induction_ranking[i].Status \in HeldLabels

\* C11: with cleaning_bays = 0 no train is being cleaned in an accepted
\* solution, and no train is reported HELD FOR CLEANING, in both variants.
C11_NoBaysNoCleaning ==
    (Accepted /\ depot.cleaning_bays = 0) =>
        /\ BeingCleaned = {}
        /\ \A t \in TrainIds : ~HeldForCleaning(t)

\* the end second of a trip that the constraints of the running variant use
CrossesMidnight(j) == ToSeconds(trips[j].end_time) < ToSeconds(trips[j].start_time)
EndUsed(j) == IF variant = "B" THEN end_seconds(j) ELSE end_sec(j)

\* C12: a trip whose end time of day is before its start has 24 * 3600 added
\* to its end before any constraint uses it, and in an accepted solution no
\* train carries both it and a trip that overlaps it, in both variants.
C12_MidnightNormalised ==
    /\ pc # "start" =>
          \A j \in TripIds :
              CrossesMidnight(j) => EndUsed(j) = ToSeconds(trips[j].end_time) + 24 * 3600
    /\ Accepted =>
          \A t \in TrainIds : \A j1, j2 \in Carried(t) :
              (j1 # j2 /\ CrossesMidnight(j1)) =>
                  (TripEnd(j1) <= TripStart(j2) \/ TripEnd(j2) <= TripStart(j1))

\* C13: the extractor and the writer run only after the solver returned
\* OPTIMAL or FEASIBLE, and for every other solver status the run still
\* writes a solution record, empty, that carries the status and a message.
C13_PipelineEmitsStatus ==
    /\ out.written => (pc = "written" /\ status \in OkStatus)
    /\ (Finished /\ status \in {"INFEASIBLE", "UNKNOWN"}) =>
          /\ out.written
          /\ out.solver_status = status
          /\ out.trip_assignments = << >>

\* the largest number of trips any solution of the posted constraints services
MaxCoverage == SetMax({Cardinality(s.trip_serviced) : s \in FeasibleB})

\* C14: trip coverage is the first priority of the objective of variant B:
\* every optimal solution services the largest number of trips that the hard
\* constraints allow.
C14_CoverageFirst ==
    (variant = "B" /\ status = "OPTIMAL") =>
        Cardinality(sol.trip_serviced) = MaxCoverage

\* the scenario: 3 eligible trains all due for cleaning, one bay, no trips
ThreeDueOneBay ==
    /\ variant = "B"
    /\ Cardinality(TrainIds) = 3
    /\ \A t \in TrainIds : ~Ineligible(t) /\ t \in trains_due_for_cleaning
    /\ depot.cleaning_bays = 1
    /\ TripIds = {}
RankedAs(labels) ==
    {i \in DOMAIN out.induction_ranking : out.induction_ranking[i].Status \in labels}
StandbyLabels ==
    {"STANDBY", "STANDBY (High Failure Risk)", "STANDBY (For Mileage Balancing)"}

\* C15: with 3 eligible trains all due for cleaning, one bay and no trips, the
\* run of variant B that ends with an optimal solution reports exactly one
\* train HELD FOR CLEANING and the two others STANDBY, and the backlog term
\* of the objective is 2 x W_CLEANING_PENALTY.
C15_OneCleanedTwoStandby ==
    (ThreeDueOneBay /\ pc \in {"written", "crashed", "failed"}
       /\ status \notin {"FEASIBLE", "UNKNOWN"}) =>
        /\ status = "OPTIMAL"
        /\ out.written
        /\ Cardinality(sol.is_cleaned) = 1
        /\ Cardinality(RankedAs({"HELD FOR CLEANING"})) = 1
        /\ Cardinality(RankedAs(StandbyLabels)) = 2
        /\ Cardinality(trains_due_for_cleaning \ sol.is_cleaned) * W_CLEANING_PENALTY
             = 2 * W_CLEANING_PENALTY

\* two trains that differ in nothing but their anomaly / health score
OnlyScoreDiffers(t, u) ==
    /\ fleet[t].anomaly_score # fleet[u].anomaly_score
    /\ [fleet[t] EXCEPT !.anomaly_score = 0] = [fleet[u] EXCEPT !.anomaly_score = 0]
Serviceable(t) ==
    ~Ineligible(t) /\ (variant = "A" => t \notin trains_requiring_cleaning)

\* C16: given a single trip and two eligible trains that differ only in their
\* score, every optimal solution assigns the trip, and not to the train of
\* the higher score; in each variant.
C16_LowerScoreAssigned ==
    (status = "OPTIMAL" /\ Cardinality(TripIds) = 1) =>
        \A t, u \in TrainIds :
            (Serviceable(t) /\ Serviceable(u) /\ OnlyScoreDiffers(t, u)
               /\ fleet[t].anomaly_score < fleet[u].anomaly_score) =>
                \A j \in TripIds : Carriers(j) # {} /\ u \notin Carriers(j)

\* a record the loader is required to reject: a trip whose end, once moved
\* past midnight when it is before the start, is not after its start, or a
\* trip of negative distance
BadRecord ==
    \E j \in TripIds : TripEnd(j) <= TripStart(j) \/ trips[j].distance_km < 0

\* C17: an input with a malformed record is rejected before any model is
\* built or solved and nothing is written; a missing input file likewise
\* leads to no solve and no output.
C17_LoaderRejects ==
    /\ BadRecord => (pc \in {"start", "nofile"} /\ status = "NONE" /\ ~out.written)
    /\ pc = "nofile" => (status = "NONE" /\ ~out.written)

\* the indicators of one train in the accepted solution of variant A
FirstOf(t) == {p[2] : p \in {q \in sol.is_first : q[1] = t}}
LastOf(t) == {p[2] : p \in {q \in sol.is_last : q[1] = t}}
EarliestStarting(t) ==
    {j \in Carried(t) : \A k \in Carried(t) : start_sec(j) <= start_sec(k)}
LatestEnding(t) ==
    {j \in Carried(t) : \A k \in Carried(t) : end_sec(j) >= end_sec(k)}

\* C18: in an accepted solution of variant A every used train has exactly
\* one is_first and one is_last indicator set, on its earliest-starting and
\* its latest-ending assigned trip, and its shunting distance is the entry of
\* the distance matrix from the end stop of the latter to the start stop of
\* the former; an unused train has shunting distance 0.
C18_ShuntingLookup ==
    (Accepted /\ variant = "A") =>
        \A t \in TrainIds :
            IF Carried(t) # {}
            THEN /\ Cardinality(FirstOf(t)) = 1
                 /\ Cardinality(LastOf(t)) = 1
                 /\ FirstOf(t) \subseteq EarliestStarting(t)
                 /\ LastOf(t) \subseteq LatestEnding(t)
                 /\ \E f \in FirstOf(t) : \E l \in LastOf(t) :
                       final_shunting_dist(sol, t)
                         = distance_matrix(stop_id_to_int(trips[l].end_stop_id),
                                           stop_id_to_int(trips[f].start_stop_id))
            ELSE final_shunting_dist(sol, t) = 0

\* an assignment that satisfies the hard constraints of variant B: one train
\* per trip, no overlap on a train, no trip on an unavailable train
HardConstraintsB(a) ==
    /\ \A j \in TripIds : Cardinality(TrainsOf(a, j)) <= 1
    /\ AddNoOverlap(a)
    /\ \A t \in TrainIds : is_unavailable(t) => TripsOf(a, t) = {}

\* C19: in variant B the mismatch of a terminal is |n_s - r_s| for every
\* non-negative required count and every assignment that satisfies the hard
\* constraints: the mismatch variable excludes none of these assignments.
C19_MismatchUnrestricted ==
    (variant = "B" /\ pc = "loaded") =>
        \A a \in SUBSET (TrainIds \X TripIds) :
            HardConstraintsB(a) => MismatchDomains(a)

\* the entries of the ranking written for a train
LabelOf(t) ==
    {out.induction_ranking[i].Status :
        i \in {k \in DOMAIN out.induction_ranking : out.induction_ranking[k].Train_ID = t}}
AssignedTrainIds == {out.trip_assignments[i].train_id : i \in DOMAIN out.trip_assignments}
AssignedTripIds == {out.trip_assignments[i].trip_id : i \in DOMAIN out.trip_assignments}

\* C20: in every record written by variant B the summary counts agree with
\* the lists: total_trains_used is the number of IN SERVICE entries and the
\* number of distinct trains in trip_assignments; trips_serviced plus
\* trips_unserviced is the number of trips; unserviced_trip_ids are exactly
\* the trips absent from trip_assignments; no train with an assignment is
\* labelled HELD or STANDBY.
C20_SummaryAgrees ==
    (out.written /\ variant = "B") =>
        /\ out.total_trains_used = Cardinality(RankedAs({"IN SERVICE"}))
        /\ out.total_trains_used = Cardinality(AssignedTrainIds)
        /\ out.trips_serviced + out.trips_unserviced = Cardinality(TripIds)
        /\ SeqToSet(out.unserviced_trip_ids) = TripIds \ AssignedTripIds
        /\ Len(out.unserviced_trip_ids) = Cardinality(TripIds \ AssignedTripIds)
        /\ \A t \in AssignedTrainIds : LabelOf(t) = {"IN SERVICE"}

\* C20 witness: variant B wrote a record with a train in service, a train held
\* for maintenance or cleaning, and a trip left unserviced
C20_Witness ==
    /\ out.written /\ variant = "B"
    /\ RankedAs({"IN SERVICE"}) # {}
    /\ RankedAs(HeldLabels) # {}
    /\ out.trips_unserviced > 0

=============================================================================
